---- MODULE Spec2Model ----
(***************************************************************************)
(* Model of droogmic/beancount's interactive account picker:               *)
(*   beancount/ingest/interactive/interactive.py  (AccountSelector and the *)
(*                                                 select_account loop)    *)
(*   beancount/ingest/interactive/guesser.py      (AccountGuess/GuessItem) *)
(*   beancount/ingest/interactive/extract.py      (extract_from_file,      *)
(*                                                 extract, main's set-up) *)
(*                                                                         *)
(* Conventions.                                                            *)
(*  - A Python str that the code splits, joins or measures is a sequence   *)
(*    of one-character strings; a key that is only compared (a metadata    *)
(*    key, a flag) is a TLA+ string.                                       *)
(*  - A Python dict is the sequence of its items in insertion order, each  *)
(*    item a record [k |-> key, v |-> value].                              *)
(*  - A Python call that may raise returns [exc |-> name, val |-> value],  *)
(*    exc = "none" when it returns normally.                               *)
(*  - None is [isNone |-> TRUE, s |-> <<>>].                               *)
(*  - The bool True stored as a metadata value is PyTrue, a sequence no    *)
(*    str equals, so that a term is a str or True.                         *)
(***************************************************************************)
EXTENDS Integers, Sequences, FiniteSets, TLC

VARIABLES
    accounts_dict,  \* the nested account dict handed to AccountSelector
    selected,       \* AccountSelector.selected: the cursor, 0-based indices
    op,             \* history: the last operation performed
    before,         \* history: the cursor before the last operation
    arg,            \* history: the account passed to the last set_account
                    \* or add_txn call
    err,            \* the exception the last operation raised, or "none"
    entries,        \* select_account's entries (their postings are replaced)
    k,              \* 1-based position of the for loop over entries; the
                    \* transaction of the last call when the guesser is
                    \* driven on its own
    pc,             \* position of select_account
    ag_active,      \* select_account's ag_active flag
    bootstrap,      \* main's args.train: the model was trained on the ledger
    save_dict,      \* AccountGuess.save_dict
    account_name,   \* select_account's local account_name
    trained,        \* history: the add_txn calls made, in order
    seeded,         \* history: the entries whose review began, in order
    importer,       \* what importer.extract(file) does: its result or exception
    existing_entries, \* extract's entries argument: None or a list
    min_date,       \* extract's mindate argument: None or a date
    ascending,      \* extract's ascending argument
    similar,        \* the pairs (new entry, existing entry) the matcher reports
    objects,        \* the heap of entry objects: objects[id] is the entry
    dicts,          \* the heap of metadata dicts: dicts[id] is the dict
    returned,       \* history: what each extract_from_file or extract call returned
    logged          \* the records written with logging.error

extractvars == <<importer, existing_entries, min_date, ascending, similar,
                 objects, dicts, returned, logged>>
sessvars == <<entries, k, pc, ag_active, bootstrap, save_dict, account_name,
              trained, seeded>>
vars == <<accounts_dict, selected, op, before, arg, err,
          entries, k, pc, ag_active, bootstrap, save_dict, account_name,
          trained, seeded, importer, existing_entries, min_date, ascending,
          similar, objects, dicts, returned, logged>>

-----------------------------------------------------------------------------
(* Python values and built-ins                                             *)

None == [isNone |-> TRUE, s |-> <<>>]
Some(s) == [isNone |-> FALSE, s |-> s]
Ok(v) == [exc |-> "none", val |-> v]
Raise(e) == [exc |-> e, val |-> <<>>]

\* The bool True as a metadata value.
PyTrue == <<"True">>

\* len(item): a str has a length, a bool has none
PyLen(item) == IF item = PyTrue THEN Raise("TypeError") ELSE Ok(Len(item))

\* d[key] = value
PySetItem(d, key, value) ==
    IF \E i \in 1..Len(d) : d[i].k = key
    THEN [i \in 1..Len(d) |-> IF d[i].k = key THEN [k |-> key, v |-> value] ELSE d[i]]
    ELSE Append(d, [k |-> key, v |-> value])

PyMax(a, b) == IF a >= b THEN a ELSE b
PyMin(a, b) == IF a <= b THEN a ELSE b

\* list[idx] with Python's negative indices; IndexError when out of range.
PyIndex(list, idx) ==
    IF idx >= 0 /\ idx < Len(list) THEN Ok(list[idx + 1])
    ELSE IF idx < 0 /\ -idx <= Len(list) THEN Ok(list[Len(list) + idx + 1])
    ELSE Raise("IndexError")

\* list[:-1]
AllButLast(list) == IF Len(list) = 0 THEN <<>> ELSE SubSeq(list, 1, Len(list) - 1)

\* s.split(sep) for a one-character separator: empty parts are kept.
PySplit(s, sep) ==
    LET RECURSIVE go(_, _, _)
        go(i, cur, out) ==
            IF i > Len(s) THEN Append(out, cur)
            ELSE IF s[i] = sep THEN go(i + 1, <<>>, Append(out, cur))
            ELSE go(i + 1, Append(cur, s[i]), out)
    IN go(1, <<>>, <<>>)

\* s.split(): split on runs of whitespace, no empty parts.
PySplitWs(s) ==
    LET RECURSIVE go(_, _, _)
        go(i, cur, out) ==
            IF i > Len(s) THEN (IF Len(cur) = 0 THEN out ELSE Append(out, cur))
            ELSE IF s[i] = " "
                 THEN go(i + 1, <<>>, IF Len(cur) = 0 THEN out ELSE Append(out, cur))
            ELSE go(i + 1, Append(cur, s[i]), out)
    IN go(1, <<>>, <<>>)

\* sep.join(parts)
PyJoin(sep, parts) ==
    LET RECURSIVE go(_)
        go(i) == IF i > Len(parts) THEN <<>>
                 ELSE IF i = 1 THEN parts[1] \o go(2)
                 ELSE <<sep>> \o parts[i] \o go(i + 1)
    IN go(1)

\* dict helpers: keys in insertion order, membership, lookup, list.index
Keys(d) == [i \in 1..Len(d) |-> d[i].k]
Values(d) == [i \in 1..Len(d) |-> d[i].v]
HasKey(d, key) == \E i \in 1..Len(d) : d[i].k = key
DictGet(d, key) == d[CHOOSE i \in 1..Len(d) : d[i].k = key].v
ListIndex(list, x) ==
    IF \E i \in 1..Len(list) : list[i] = x
    THEN Ok((CHOOSE i \in 1..Len(list) :
                list[i] = x /\ \A j \in 1..(i - 1) : list[j] # x) - 1)
    ELSE Raise("ValueError")

-----------------------------------------------------------------------------
(* interactive.py: module functions                                        *)

ROOT == <<"_", "_", "r", "o", "o", "t", "_", "_">>

no_root_keeps_marker(nest_dict) == nest_dict

no_root(nest_dict) == SelectSeq(nest_dict, LAMBDA item : item.k # ROOT)

is_root_ignores_value(nest_dict) == HasKey(nest_dict, ROOT)

is_root(nest_dict) == HasKey(nest_dict, ROOT) /\ DictGet(nest_dict, ROOT) = TRUE

-----------------------------------------------------------------------------
(* interactive.py: class AccountSelector.  Each method is an operator on   *)
(* the object's fields that returns the new cursor (or the value read) or  *)
(* the exception raised.                                                   *)

reset == <<0>>

_get_nested_dict_from_selected(ad, sel) ==
    LET RECURSIVE walk(_, _)
        walk(nest_dict, i) ==
            IF i > Len(sel) THEN Ok(nest_dict)
            ELSE LET r == PyIndex(Values(no_root(nest_dict)), sel[i])
                 IN IF r.exc # "none" THEN r ELSE walk(r.val, i + 1)
    IN walk(ad, 1)

get_nested_dict(ad, sel) == _get_nested_dict_from_selected(ad, sel)

_get_account_unfiltered_keys(ad, sel) ==
    LET RECURSIVE walk(_, _, _)
        walk(nest_dict, i, names) ==
            IF i > Len(sel) THEN Ok(PyJoin(":", names))
            ELSE LET key == PyIndex(Keys(nest_dict), sel[i])
                     nxt == PyIndex(Values(no_root(nest_dict)), sel[i])
                 IN IF key.exc # "none" THEN key
                    ELSE IF nxt.exc # "none" THEN nxt
                    ELSE walk(nxt.val, i + 1, Append(names, key.val))
    IN walk(ad, 1, <<>>)

_get_account(ad, sel) ==
    LET RECURSIVE walk(_, _, _)
        walk(nest_dict, i, names) ==
            IF i > Len(sel) THEN Ok(PyJoin(":", names))
            ELSE LET key == PyIndex(Keys(no_root(nest_dict)), sel[i])
                     nxt == PyIndex(Values(no_root(nest_dict)), sel[i])
                 IN IF key.exc # "none" THEN key
                    ELSE IF nxt.exc # "none" THEN nxt
                    ELSE walk(nxt.val, i + 1, Append(names, key.val))
    IN walk(ad, 1, <<>>)

set_account_unfiltered_index(ad, account) ==
    LET account_list == PySplit(account, ":")
        RECURSIVE walk(_, _, _)
        walk(nest_dict, i, sel) ==
            IF i > Len(account_list) THEN Ok(sel)
            ELSE LET idx == ListIndex(Keys(nest_dict), account_list[i])
                 IN IF idx.exc # "none" THEN idx
                    ELSE IF account_list[i] = ROOT THEN Raise("AttributeError")
                    ELSE walk(DictGet(nest_dict, account_list[i]), i + 1,
                              Append(sel, idx.val))
    IN walk(ad, 1, <<>>)

set_account_stops_at_missing_segment(ad, account) ==
    LET account_list == PySplit(account, ":")
        RECURSIVE walk(_, _, _)
        walk(nest_dict, i, sel) ==
            IF i > Len(account_list) THEN Ok(sel)
            ELSE LET idx == ListIndex(Keys(no_root(nest_dict)), account_list[i])
                 IN IF idx.exc # "none" THEN Ok(sel)
                    ELSE walk(DictGet(nest_dict, account_list[i]), i + 1,
                              Append(sel, idx.val))
    IN walk(ad, 1, <<>>)

set_account(ad, account) ==
    LET account_list == PySplit(account, ":")
        RECURSIVE walk(_, _, _)
        walk(nest_dict, i, sel) ==
            IF i > Len(account_list) THEN Ok(sel)
            ELSE LET idx == ListIndex(Keys(no_root(nest_dict)), account_list[i])
                 IN IF idx.exc # "none" THEN idx
                    ELSE walk(DictGet(nest_dict, account_list[i]), i + 1,
                              Append(sel, idx.val))
    IN walk(ad, 1, <<>>)

prev_account_wraps(sel) ==
    IF Len(sel) = 0 THEN Raise("IndexError")
    ELSE Ok([sel EXCEPT ![Len(sel)] = sel[Len(sel)] - 1])

prev_account(sel) ==
    IF Len(sel) = 0 THEN Raise("IndexError")
    ELSE Ok([sel EXCEPT ![Len(sel)] = PyMax(sel[Len(sel)] - 1, 0)])

next_account_unclamped(ad, sel) ==
    IF Len(sel) = 0 THEN Raise("IndexError")
    ELSE Ok([sel EXCEPT ![Len(sel)] = sel[Len(sel)] + 1])

next_account(ad, sel) ==
    LET r == _get_nested_dict_from_selected(ad, AllButLast(sel))
    IN IF r.exc # "none" THEN r
       ELSE IF Len(sel) = 0 THEN Raise("IndexError")
       ELSE Ok([sel EXCEPT ![Len(sel)] =
                   PyMin(sel[Len(sel)] + 1, Len(no_root(r.val)) - 1)])

prev_level_unguarded(sel) == Ok(AllButLast(sel))

prev_level(sel) == IF Len(sel) > 1 THEN Ok(AllButLast(sel)) ELSE Ok(sel)

next_level_counts_marker(ad, sel) ==
    LET r == _get_nested_dict_from_selected(ad, sel)
    IN IF r.exc # "none" THEN r
       ELSE IF Len(r.val) > 0 THEN Ok(Append(sel, 0)) ELSE Ok(sel)

next_level_stops_at_account(ad, sel) ==
    LET r == _get_nested_dict_from_selected(ad, sel)
    IN IF r.exc # "none" THEN r
       ELSE IF Len(no_root(r.val)) > 0 /\ ~is_root(r.val) THEN Ok(Append(sel, 0))
       ELSE Ok(sel)

next_level(ad, sel) ==
    LET r == _get_nested_dict_from_selected(ad, sel)
    IN IF r.exc # "none" THEN r
       ELSE IF Len(no_root(r.val)) > 0 THEN Ok(Append(sel, 0)) ELSE Ok(sel)

-----------------------------------------------------------------------------
(* Account trees.  getters.get_dict_accounts builds them from the ledger's *)
(* account names: one nested dict per segment, '__root__': True on every   *)
(* node that is itself an account, keys in order of first appearance.      *)

sExp == <<"E", "x", "p">>
sToys == <<"T", "o", "y", "s">>
sComp == <<"C", "o", "m", "p">>
sAst == <<"A", "s", "t">>
sCash == <<"C", "a", "s", "h">>
sBank == <<"B", "k">>
sFood == <<"F", "o", "o", "d">>
sInc == <<"I", "n", "c">>
sJob == <<"J", "o", "b">>
sZz == <<"Z", "z">>

Terminal == <<[k |-> ROOT, v |-> TRUE]>>

\* {} : a ledger that names no account
TreeEmpty == <<>>

\* {Exp: {Toys: {Comp: {__root__: True}}}}
TreeChain ==
    <<[k |-> sExp, v |->
        <<[k |-> sToys, v |->
            <<[k |-> sComp, v |-> Terminal]>>]>>]>>

\* {Ast: {__root__: True, Cash: {__root__: True}, Bank: {__root__: True}},
\*  Exp: {Food: {__root__: True}, __root__: True}}
TreeWide ==
    <<[k |-> sAst, v |-> <<[k |-> ROOT, v |-> TRUE],
                           [k |-> sCash, v |-> Terminal],
                           [k |-> sBank, v |-> Terminal]>>],
      [k |-> sExp, v |-> <<[k |-> sFood, v |-> Terminal],
                           [k |-> ROOT, v |-> TRUE]>>]>>

\* {Inc: {__root__: False, Job: {__root__: True}}} : a marker that is not true
TreeFalseMarker ==
    <<[k |-> sInc, v |-> <<[k |-> ROOT, v |-> FALSE],
                           [k |-> sJob, v |-> Terminal]>>]>>

TopKeys(t) == [i \in 1..Len(t) |-> t[i].k]

IsTree(t) ==
    \/ t = TreeEmpty
    \/ t = TreeChain
    \/ t = TreeWide
    \/ t = TreeFalseMarker

\* Every chain of segment names from the top level, colon-joined.
RECURSIVE NamePaths(_)
NamePaths(d) ==
    UNION { {<<d[i].k>>} \cup { <<d[i].k>> \o p : p \in NamePaths(d[i].v) }
            : i \in { j \in 1..Len(d) : d[j].k # ROOT } }

ValidPaths(ad) == { PyJoin(":", names) : names \in NamePaths(ad) }

\* The arguments set_account is exercised with: every path of the tree, and
\* strings that are no path of it.
AccountArgs(ad) ==
    ValidPaths(ad)
    \cup { p \o <<":">> \o sZz : p \in ValidPaths(ad) }
    \cup { p \o <<":">> \o ROOT : p \in ValidPaths(ad) }
    \cup { p \o <<":">> : p \in ValidPaths(ad) }
    \cup { sZz, <<>>, ROOT }

-----------------------------------------------------------------------------
(* guesser.py.  A Python number is an exact rational [n |-> , d |-> ] with *)
(* d > 0: the tallies are ints (d = 1), the weights and votes are the      *)
(* quotients the code computes, without floating-point rounding.           *)

Num(i) == [n |-> i, d |-> 1]
NumAdd(a, b) == [n |-> a.n * b.d + b.n * a.d, d |-> a.d * b.d]
NumMul(a, b) == [n |-> a.n * b.n, d |-> a.d * b.d]
NumDiv(a, b) == [n |-> a.n * b.d, d |-> a.d * b.n]
NumLess(a, b) == a.n * b.d < b.n * a.d
NumEq(a, b) == a.n * b.d = b.n * a.d

\* '__automatic__', '__residual__', '__tolerances__' are interpolate's
\* AUTOMATIC_META, AUTOMATIC_RESIDUAL and AUTOMATIC_TOLERANCES.
DUPLICATE_META == "__duplicate__"

EXCLUSIONS ==
    {"filename", "lineno", "__automatic__", "__residual__", "__tolerances__"}

increment_dict_overwrites(target_dict, key, increment) ==
    IF HasKey(target_dict, key)
    THEN [i \in 1..Len(target_dict) |->
            IF target_dict[i].k = key
            THEN [k |-> key, v |-> increment]
            ELSE target_dict[i]]
    ELSE Append(target_dict, [k |-> key, v |-> NumAdd(Num(0), increment)])

\* target_dict[key] = target_dict.setdefault(key, 0) + increment
increment_dict(target_dict, key, increment) ==
    IF HasKey(target_dict, key)
    THEN [i \in 1..Len(target_dict) |->
            IF target_dict[i].k = key
            THEN [k |-> key, v |-> NumAdd(target_dict[i].v, increment)]
            ELSE target_dict[i]]
    ELSE Append(target_dict, [k |-> key, v |-> NumAdd(Num(0), increment)])

item_gen_without_payee(txn) ==
    LET narr_items == PySplitWs(txn.narration)
        meta_vals == Values(SelectSeq(txn.meta, LAMBDA item : item.k \notin EXCLUSIONS))
    IN narr_items \o meta_vals

item_gen_distinct(txn) ==
    LET narr_items == PySplitWs(txn.narration)
        payee_items == IF txn.payee.isNone THEN <<>> ELSE PySplitWs(txn.payee.s)
        meta_vals == Values(SelectSeq(txn.meta, LAMBDA item : item.k \notin EXCLUSIONS))
        all == narr_items \o payee_items \o meta_vals
        RECURSIVE go(_)
        go(i) == IF i > Len(all) THEN <<>>
                 ELSE IF \E j \in 1..(i - 1) : all[j] = all[i] THEN go(i + 1)
                 ELSE <<all[i]>> \o go(i + 1)
    IN go(1)

\* item_gen: chain(narr_items, payee_items, meta_vals)
item_gen(txn) ==
    LET narr_items == PySplitWs(txn.narration)
        payee_items == IF txn.payee.isNone THEN <<>> ELSE PySplitWs(txn.payee.s)
        meta_vals == Values(SelectSeq(txn.meta, LAMBDA item : item.k \notin EXCLUSIONS))
    IN narr_items \o payee_items \o meta_vals

\* GuessItem.add, on the item's account_dict
add(account_dict, account) == increment_dict(account_dict, account, Num(1))

\* sum(self.account_dict.values())
SumValues(account_dict) ==
    LET RECURSIVE go(_)
        go(i) == IF i > Len(account_dict) THEN Num(0)
                 ELSE NumAdd(account_dict[i].v, go(i + 1))
    IN go(1)

get_weight_unsquared(account_dict, selected_account) ==
    LET selected_votes == DictGet(account_dict, selected_account)
    IN NumDiv(selected_votes, SumValues(account_dict))

\* GuessItem.get_weight
get_weight(account_dict, selected_account) ==
    LET selected_votes == DictGet(account_dict, selected_account)
        weight == NumDiv(selected_votes, SumValues(account_dict))
    IN NumMul(weight, weight)

\* GuessItem.get
get(account_dict) ==
    [i \in 1..Len(account_dict) |->
        [k |-> account_dict[i].k, v |-> get_weight(account_dict, account_dict[i].k)]]

\* AccountGuess.add_txn: save_dict.setdefault(item, GuessItem()).add(account_name)
add_txn(sd, txn, name) ==
    LET items == item_gen(txn)
        RECURSIVE go(_, _)
        go(d, i) ==
            IF i > Len(items) THEN d
            ELSE LET d1 == IF HasKey(d, items[i]) THEN d
                           ELSE Append(d, [k |-> items[i], v |-> <<>>])
                 IN go([j \in 1..Len(d1) |->
                          IF d1[j].k = items[i]
                          THEN [k |-> d1[j].k, v |-> add(d1[j].v, name)]
                          ELSE d1[j]], i + 1)
    IN go(sd, 1)

\* max(votes, key=votes.get): the first key, in insertion order, of maximal value
MaxKey(votes) ==
    LET best == CHOOSE i \in 1..Len(votes) :
                    /\ \A j \in 1..Len(votes) : ~NumLess(votes[i].v, votes[j].v)
                    /\ \A j \in 1..(i - 1) : NumLess(votes[j].v, votes[i].v)
    IN votes[best].k

get_account_ignores_length(sd, txn) ==
    LET items == item_gen(txn)
        RECURSIVE inner(_, _, _, _)
        inner(votes, item_dict, item, j) ==
            IF j > Len(item_dict) THEN Ok(votes)
            ELSE inner(increment_dict(votes, item_dict[j].k, item_dict[j].v),
                       item_dict, item, j + 1)
        RECURSIVE outer(_, _)
        outer(votes, i) ==
            IF i > Len(items) THEN Ok(votes)
            ELSE IF HasKey(sd, items[i])
                 THEN LET r == inner(votes, get(DictGet(sd, items[i])), items[i], 1)
                      IN IF r.exc # "none" THEN r ELSE outer(r.val, i + 1)
                 ELSE outer(votes, i + 1)
        votes == outer(<<>>, 1)
    IN IF votes.exc # "none" THEN votes
       ELSE IF Len(votes.val) > 0 THEN Ok(Some(MaxKey(votes.val))) ELSE Ok(None)

\* AccountGuess.get_account: Ok(the account or None), or the TypeError that
\* len(item) raises for an item with a GuessItem that is no str
get_account(sd, txn) ==
    LET items == item_gen(txn)
        RECURSIVE inner(_, _, _, _)
        inner(votes, item_dict, item, j) ==
            IF j > Len(item_dict) THEN Ok(votes)
            ELSE LET len == PyLen(item)
                 IN IF len.exc # "none" THEN len
                    ELSE inner(increment_dict(votes, item_dict[j].k,
                                              NumMul(item_dict[j].v, Num(len.val))),
                               item_dict, item, j + 1)
        RECURSIVE outer(_, _)
        outer(votes, i) ==
            IF i > Len(items) THEN Ok(votes)
            ELSE IF HasKey(sd, items[i])
                 THEN LET r == inner(votes, get(DictGet(sd, items[i])), items[i], 1)
                      IN IF r.exc # "none" THEN r ELSE outer(r.val, i + 1)
                 ELSE outer(votes, i + 1)
        votes == outer(<<>>, 1)
    IN IF votes.exc # "none" THEN votes
       ELSE IF Len(votes.val) > 0 THEN Ok(Some(MaxKey(votes.val))) ELSE Ok(None)

get_account_save_dict_setdefault(sd, txn) ==
    LET items == item_gen(txn)
        RECURSIVE go(_, _)
        go(d, i) ==
            IF i > Len(items) THEN d
            ELSE go(IF HasKey(d, items[i]) THEN d
                    ELSE Append(d, [k |-> items[i], v |-> <<>>]), i + 1)
    IN go(sd, 1)

\* self.save_dict when get_account returns or raises: the loop reads it with
\* save_dict.get(item), which stores nothing for a missing item
get_account_save_dict(sd, txn) ==
    LET items == item_gen(txn)
        RECURSIVE go(_, _)
        go(d, i) == IF i > Len(items) THEN d ELSE go(d, i + 1)
    IN go(sd, 1)

-----------------------------------------------------------------------------
(* The navigator on its own: an AccountSelector driven by its caller.      *)

ExtractIdle ==
    /\ importer = Ok(None)
    /\ existing_entries = None
    /\ min_date = None
    /\ ascending = TRUE
    /\ similar = {}
    /\ objects = <<>>
    /\ dicts = <<>>
    /\ returned = <<>>
    /\ logged = <<>>

SessionIdle ==
    /\ entries = <<>>
    /\ k = 0
    /\ pc = "none"
    /\ ag_active = FALSE
    /\ bootstrap = FALSE
    /\ save_dict = <<>>
    /\ account_name = None
    /\ trained = <<>>
    /\ seeded = <<>>

\* AccountSelector.__init__
NavInit ==
    /\ IsTree(accounts_dict)
    /\ selected = reset
    /\ op = "init"
    /\ before = reset
    /\ arg = <<>>
    /\ err = "none"
    /\ SessionIdle
    /\ ExtractIdle

\* A method call: the cursor is replaced when the call returns normally and
\* is left as it was when the call raises.
Call(name, r, a) ==
    /\ op' = name
    /\ before' = selected
    /\ arg' = a
    /\ err' = r.exc
    /\ selected' = IF r.exc = "none" THEN r.val ELSE selected
    /\ UNCHANGED accounts_dict
    /\ UNCHANGED sessvars
    /\ UNCHANGED extractvars

Reset == Call("reset", Ok(reset), arg)

SetAccount == \E a \in AccountArgs(accounts_dict) :
    Call("set_account", set_account(accounts_dict, a), a)

PrevAccount == Call("prev_account", prev_account(selected), arg)

NextAccount == Call("next_account", next_account(accounts_dict, selected), arg)

PrevLevel == Call("prev_level", prev_level(selected), arg)

NextLevel == Call("next_level", next_level(accounts_dict, selected), arg)

NavNext ==
    \/ Reset
    \/ SetAccount
    \/ PrevAccount
    \/ NextAccount
    \/ PrevLevel
    \/ NextLevel

NavSpec == NavInit /\ [][NavNext]_vars

-----------------------------------------------------------------------------
(* The review session: extract.py's main sets up the tree, the new entries *)
(* and the AccountGuess, and interactive.py's select_account reviews the   *)
(* entries one by one.                                                     *)

MaxEntries == 3

sSrc == <<"S", "r", "c">>
sPending == <<"?">>
sAbCd == <<"a", "b", " ", "c", "d">>
sAb == <<"a", "b">>
sCd == <<"c", "d">>
sXy == <<"x", "y">>
sZzz == <<"z", "z", "z">>
sZzzAb == <<"z", "z", "z", " ", "a", "b">>
sFile == <<"f">>
sLine == <<"1">>

Path2(a, b) == a \o <<":">> \o b
Path3(a, b, c) == a \o <<":">> \o b \o <<":">> \o c

Posting(account, units) == [account |-> account, units |-> units]

\* The transactions an importer extracted: the second posting awaits its
\* account.
NewTxnPool ==
    <<[narration |-> sAbCd, payee |-> None, flag |-> "!",
       meta |-> <<[k |-> "filename", v |-> sFile], [k |-> "lineno", v |-> sLine]>>,
       postings |-> <<Posting(sSrc, "-5"), Posting(sPending, "5")>>],
      [narration |-> sAb, payee |-> Some(sCd), flag |-> "!",
       meta |-> <<[k |-> "filename", v |-> sFile], [k |-> "lineno", v |-> sLine],
                  [k |-> "note", v |-> sXy]>>,
       postings |-> <<Posting(sSrc, "-7"), Posting(sPending, "4"),
                      Posting(sPending, "3")>>],
      [narration |-> sZzzAb, payee |-> None, flag |-> "!",
       meta |-> <<[k |-> "filename", v |-> sFile], [k |-> "lineno", v |-> sLine]>>,
       postings |-> <<Posting(sSrc, "-1"), Posting(sPending, "1")>>]>>

NewTxn(i) == NewTxnPool[((i - 1) % Len(NewTxnPool)) + 1]

LedgerTxn(narration, flag, account) ==
    [narration |-> narration, payee |-> None, flag |-> flag,
     meta |-> <<[k |-> "filename", v |-> sFile], [k |-> "lineno", v |-> sLine]>>,
     postings |-> <<Posting(sSrc, "-2"), Posting(account, "2")>>]

\* The transactions of the existing ledger the tree was built from.
Ledger(ad) ==
    IF TopKeys(ad) = TopKeys(TreeChain)
    THEN <<LedgerTxn(sAb, "*", Path3(sExp, sToys, sComp))>>
    ELSE IF TopKeys(ad) = TopKeys(TreeWide)
    THEN <<LedgerTxn(sAb, "*", Path2(sExp, sFood)),
           LedgerTxn(sZzz, "!", Path2(sAst, sBank)),
           LedgerTxn(sCd, "*", sAst)>>
    ELSE IF TopKeys(ad) = TopKeys(TreeFalseMarker)
    THEN <<LedgerTxn(sZzz, "*", Path2(sInc, sJob))>>
    ELSE <<>>

\* main: ag.add_txn(txn, txn.postings[1].account) for the cleared transactions
Bootstrap(ledger) ==
    LET RECURSIVE go(_, _)
        go(sd, i) ==
            IF i > Len(ledger) THEN sd
            ELSE IF ledger[i].flag = "*"
                 THEN go(add_txn(sd, ledger[i], ledger[i].postings[2].account), i + 1)
                 ELSE go(sd, i + 1)
    IN go(<<>>, 1)

InitialModel ==
    IF ag_active /\ bootstrap THEN Bootstrap(Ledger(accounts_dict)) ELSE <<>>

\* draw_accounts: the walk down the tree that renders one column per level
draw_accounts(ad, sel) ==
    LET RECURSIVE walk(_, _)
        walk(nest_dict, i) ==
            IF i > Len(sel) THEN Ok(TRUE)
            ELSE LET r == PyIndex(Values(no_root(nest_dict)), sel[i])
                 IN IF r.exc # "none" THEN r ELSE walk(r.val, i + 1)
    IN walk(ad, 1)

seed_cursor_ignores_ag_active(ad, active, guess) ==
    IF ~guess.isNone THEN set_account(ad, guess.s) ELSE Ok(reset)

\* AccountSelector(accounts_dict), then set_account(guess) when guessing is
\* active and there is a guess
seed_cursor(ad, active, guess) ==
    IF active /\ ~guess.isNone THEN set_account(ad, guess.s) ELSE Ok(reset)

commit_first_posting(entry, sd, name) ==
    [entry |-> [entry EXCEPT !.postings[1].account = name],
     save_dict |-> add_txn(sd, entry, name)]

commit_without_training(entry, sd, name) ==
    [entry |-> [entry EXCEPT !.postings[2].account = name],
     save_dict |-> sd]

commit_trains_before_replace(entry, sd, name) ==
    [entry |-> [entry EXCEPT !.postings[2].account = name],
     save_dict |-> add_txn(sd, entry, entry.postings[2].account)]

\* entry.postings[1] = entry.postings[1]._replace(account=account_name);
\* ag.add_txn(entry, account_name)
commit(entry, sd, name) ==
    LET replaced == [entry EXCEPT !.postings[2].account = name]
    IN [entry |-> replaced, save_dict |-> add_txn(sd, replaced, name)]

\* extract_from_file's marking of one entry, by value:
\* marked_meta = entry.meta.copy(); marked_meta[DUPLICATE_META] = True;
\* entry._replace(meta=marked_meta)
marked(entry) == [entry EXCEPT !.meta = PySetItem(entry.meta, DUPLICATE_META, PyTrue)]

\* The positions of the new entries the matcher paired with an entry of the
\* ledger: none, or the first and the third.  A ledger without entries
\* pairs with nothing.
DuplicateSets(ledger) == IF Len(ledger) = 0 THEN {{}} ELSE {{}, {1, 3}}

\* select_account up to the for loop, on the entries main got from extract
Init ==
    /\ IsTree(accounts_dict)
    /\ \E n \in 0..MaxEntries : \E flagged \in DuplicateSets(Ledger(accounts_dict)) :
          entries = [i \in 1..n |-> IF i \in flagged THEN marked(NewTxn(i))
                                                  ELSE NewTxn(i)]
    /\ ag_active \in BOOLEAN
    /\ bootstrap \in BOOLEAN
    /\ save_dict = InitialModel
    /\ k = 1
    /\ pc = "loop"
    /\ selected = reset
    /\ op = "init"
    /\ before = reset
    /\ arg = <<>>
    /\ err = "none"
    /\ account_name = None
    /\ trained = <<>>
    /\ seeded = <<>>
    /\ ExtractIdle

\* The head of the for loop to the first getkey of the transaction.
Seed ==
    /\ pc = "loop"
    /\ k <= Len(entries)
    /\ LET guess == get_account(save_dict, entries[k])
           s == IF guess.exc # "none" THEN guess
                ELSE seed_cursor(accounts_dict, ag_active, guess.val)
           d == IF s.exc = "none" THEN draw_accounts(accounts_dict, s.val) ELSE s
       IN /\ account_name' = IF guess.exc = "none" THEN guess.val ELSE account_name
          /\ selected' = IF s.exc = "none" THEN s.val ELSE reset
          /\ err' = d.exc
          /\ pc' = IF d.exc = "none" THEN "nav" ELSE "crash"
    /\ op' = "seed"
    /\ before' = selected
    /\ seeded' = Append(seeded, k)
    /\ save_dict' = get_account_save_dict(save_dict, entries[k])
    /\ UNCHANGED extractvars
    /\ UNCHANGED <<accounts_dict, arg, entries, k, ag_active, bootstrap, trained>>

\* The for loop runs out of entries: select_account returns.
Finish ==
    /\ pc = "loop"
    /\ k > Len(entries)
    /\ pc' = "done"
    /\ op' = "return"
    /\ before' = selected
    /\ UNCHANGED extractvars
    /\ UNCHANGED <<accounts_dict, selected, arg, err, entries, k, ag_active,
                   bootstrap, save_dict, account_name, trained, seeded>>

\* A key that moves the cursor (or does nothing), then the redraw at the top
\* of the while loop.
NavKey(key, r) ==
    /\ pc = "nav"
    /\ op' = key
    /\ before' = selected
    /\ LET sel == IF r.exc = "none" THEN r.val ELSE selected
           d == IF r.exc = "none" THEN draw_accounts(accounts_dict, sel) ELSE r
       IN /\ selected' = sel
          /\ err' = d.exc
          /\ pc' = IF d.exc = "none" THEN "nav" ELSE "crash"
    /\ UNCHANGED extractvars
    /\ UNCHANGED <<accounts_dict, arg, entries, k, ag_active, bootstrap, save_dict,
                   account_name, trained, seeded>>

KeyQ_skips_transaction ==
    /\ pc = "nav"
    /\ pc' = "loop"
    /\ k' = k + 1
    /\ op' = "q"
    /\ before' = selected
    /\ UNCHANGED extractvars
    /\ UNCHANGED <<accounts_dict, selected, arg, err, entries, ag_active,
                   bootstrap, save_dict, account_name, trained, seeded>>

\* 'q': raise Quit, caught outside the for loop
KeyQ ==
    /\ pc = "nav"
    /\ pc' = "quit"
    /\ op' = "q"
    /\ before' = selected
    /\ UNCHANGED extractvars
    /\ UNCHANGED <<accounts_dict, selected, arg, err, entries, k, ag_active,
                   bootstrap, save_dict, account_name, trained, seeded>>

KeyW == NavKey("w", prev_account(selected))

KeyS == NavKey("s", next_account(accounts_dict, selected))

KeyD == NavKey("d", next_level(accounts_dict, selected))

KeyA == NavKey("a", prev_level(selected))

\* any other key
KeyOther == NavKey("other", Ok(selected))

\* 'r': commit when the node under the cursor is an account
KeyR ==
    LET nest_dict == get_nested_dict(accounts_dict, selected)
    IN IF nest_dict.exc # "none" THEN NavKey("r", nest_dict)
       ELSE IF ~is_root(nest_dict.val) THEN NavKey("r", Ok(selected))
       ELSE LET name == _get_account(accounts_dict, selected)
                done == commit(entries[k], save_dict, name.val)
            IN /\ pc = "nav"
               /\ op' = "r"
               /\ before' = selected
               /\ err' = name.exc
               /\ IF name.exc # "none"
                  THEN /\ pc' = "crash"
                       /\ UNCHANGED <<entries, save_dict, account_name, trained, k>>
                  ELSE /\ account_name' = Some(name.val)
                       /\ entries' = [entries EXCEPT ![k] = done.entry]
                       /\ save_dict' = done.save_dict
                       /\ trained' = Append(trained, [entry |-> k, account |-> name.val])
                       /\ k' = k + 1
                       /\ pc' = "loop"
               /\ UNCHANGED extractvars
               /\ UNCHANGED <<accounts_dict, selected, arg, ag_active, bootstrap,
                              seeded>>

Next ==
    \/ Seed
    \/ Finish
    \/ KeyQ
    \/ KeyW
    \/ KeyS
    \/ KeyD
    \/ KeyA
    \/ KeyOther
    \/ KeyR

Spec == Init /\ [][Next]_vars

-----------------------------------------------------------------------------
(* The vocabulary of the properties, defined on the tree itself and not    *)
(* through the selector's methods.                                         *)

\* The non-marker entries of one tree level, in order.
Siblings(d) == SelectSeq(d, LAMBDA item : item.k # ROOT)

RECURSIVE ValidFrom(_, _, _)
ValidFrom(d, sel, i) ==
    \/ i > Len(sel)
    \/ /\ sel[i] \in 0..(Len(Siblings(d)) - 1)
       /\ ValidFrom(Siblings(d)[sel[i] + 1].v, sel, i + 1)

\* sel is a path through the tree: non-empty, every index within its level.
ValidCursor(ad, sel) == Len(sel) >= 1 /\ ValidFrom(ad, sel, 1)

\* The node a valid path (possibly empty: the tree itself) leads to.
RECURSIVE NodeFrom(_, _, _)
NodeFrom(d, sel, i) ==
    IF i > Len(sel) THEN d ELSE NodeFrom(Siblings(d)[sel[i] + 1].v, sel, i + 1)

NodeAt(ad, sel) == NodeFrom(ad, sel, 1)

\* The number of siblings at the depth of the cursor's last index.
SiblingCount(ad, sel) ==
    IF Len(sel) >= 1 /\ ValidFrom(ad, AllButLast(sel), 1)
    THEN Len(Siblings(NodeAt(ad, AllButLast(sel))))
    ELSE 0

\* The node under the cursor has a child other than the terminal marker.
HasChild(ad, sel) == ValidCursor(ad, sel) /\ Len(Siblings(NodeAt(ad, sel))) > 0

NonEmptyTree == Len(Siblings(accounts_dict)) > 0

\* The node under the cursor carries the terminal marker with a true value.
IsTerminalAt(ad, sel) ==
    /\ ValidCursor(ad, sel)
    /\ \E i \in 1..Len(NodeAt(ad, sel)) :
          /\ NodeAt(ad, sel)[i].k = ROOT
          /\ NodeAt(ad, sel)[i].v = TRUE

\* The segment names along a valid path, colon-joined.
RECURSIVE NamesFrom(_, _, _)
NamesFrom(d, sel, i) ==
    IF i > Len(sel) THEN <<>>
    ELSE <<Siblings(d)[sel[i] + 1].k>>
         \o NamesFrom(Siblings(d)[sel[i] + 1].v, sel, i + 1)

CursorPath(ad, sel) == PyJoin(":", NamesFrom(ad, sel, 1))

\* The model after the training calls of a log, in order.
RECURSIVE FoldTrain(_, _, _)
FoldTrain(sd, log, i) ==
    IF i > Len(log) THEN sd
    ELSE FoldTrain(add_txn(sd, entries[log[i].entry], log[i].account), log, i + 1)

TreeIs(t) == TopKeys(accounts_dict) = TopKeys(t)

\* The last get_account call returned (a guess or None): it did not raise.
GuessReturned == err # "TypeError"

\* Transaction j as extract returned it: as the importer made it, or its
\* marked copy.
AsExtracted(j) ==
    IF \E i \in 1..Len(entries[j].meta) : entries[j].meta[i].k = "__duplicate__"
    THEN [NewTxn(j) EXCEPT !.meta = Append(NewTxn(j).meta,
                                          [k |-> "__duplicate__", v |-> PyTrue])]
    ELSE NewTxn(j)

SamePrefix(a, b) ==
    /\ Len(a) = Len(b)
    /\ \A i \in 1..(Len(a) - 1) : a[i] = b[i]

Last(sel) == sel[Len(sel)]

-----------------------------------------------------------------------------
(* Properties of the navigator, checked under NavSpec.                     *)

\* C1 as stated: in every state reachable from reset() or set_account(P) by
\* prev_sibling, next_sibling, ascend and descend, the cursor is a valid path
\* through the account tree.  Fails for the empty tree, where reset() leaves
\* [0] and next_sibling makes it [-1].
C1_CursorAlwaysValid == ValidCursor(accounts_dict, selected)

\* C1 amended: when the tree has at least one top-level account, the cursor
\* is a valid path in every state reachable from reset() or set_account(P)
\* by the four navigation commands.
C1_CursorValidInNonEmptyTree ==
    NonEmptyTree => ValidCursor(accounts_dict, selected)

C1_Witness ==
    /\ TreeIs(TreeWide)
    /\ op = "next_account"
    /\ before = <<0, 1>>
    /\ selected = <<0, 1>>

\* C7 as stated: prev_sibling and next_sibling change only the last index,
\* by -1 / +1 clamped to [0, sibling_count-1] (at index 0 prev_sibling stays,
\* at the last sibling next_sibling stays), never wrap and never raise.
\* Fails for the empty tree, where next_sibling turns [0] into [-1].
C7_SiblingStepClamped ==
    /\ op = "prev_account" =>
          /\ err = "none"
          /\ SamePrefix(selected, before)
          /\ Last(selected) = IF Last(before) - 1 < 0 THEN 0 ELSE Last(before) - 1
    /\ op = "next_account" =>
          /\ err = "none"
          /\ SamePrefix(selected, before)
          /\ Last(selected) =
                IF Last(before) + 1 > SiblingCount(accounts_dict, before) - 1
                THEN Last(before) ELSE Last(before) + 1

\* C7 amended: when the tree has at least one top-level account,
\* prev_sibling and next_sibling change only the last index, by -1 / +1
\* clamped to [0, sibling_count-1], and never raise.
C7_SiblingStepClampedInNonEmptyTree == NonEmptyTree => C7_SiblingStepClamped

C7_Witness ==
    /\ TreeIs(TreeWide)
    /\ op = "prev_account"
    /\ before = <<0, 0>>
    /\ selected = <<0, 0>>

\* C8: descend appends index 0 exactly when the node under the cursor has a
\* child other than the terminal marker; otherwise the cursor is unchanged
\* (and where there is a node under the cursor, nothing is raised).
C8_DescendIffChild ==
    op = "next_level" =>
        /\ selected = IF HasChild(accounts_dict, before)
                      THEN Append(before, 0) ELSE before
        /\ ValidCursor(accounts_dict, before) => err = "none"

C8_Witness ==
    /\ TreeIs(TreeChain)
    /\ op = "next_level"
    /\ before = <<0, 0, 0>>
    /\ selected = <<0, 0, 0>>

\* C9: ascend removes the last index when the depth is greater than 1 and is
\* a no-op at depth 1; the depth is never below 1.
C9_AscendStopsAtDepthOne ==
    /\ Len(selected) >= 1
    /\ op = "prev_level" =>
          /\ err = "none"
          /\ selected = IF Len(before) > 1 THEN AllButLast(before) ELSE before

C9_Witness ==
    /\ op = "prev_level"
    /\ Len(before) = 1
    /\ selected = before

\* C10: for every valid path P of the tree, set_account(P) followed by
\* reading account yields exactly P.
C10_SetAccountRoundTrip ==
    (op = "set_account" /\ arg \in ValidPaths(accounts_dict)) =>
        /\ err = "none"
        /\ _get_account(accounts_dict, selected).exc = "none"
        /\ _get_account(accounts_dict, selected).val = arg

C10_Witness ==
    /\ op = "set_account"
    /\ arg = sAst \o <<":">> \o sBank
    /\ selected = <<0, 1>>

-----------------------------------------------------------------------------
(* Properties of the review session, checked under Spec.                   *)

\* C2: a commit command ('r') on a node whose subtree does not carry the
\* terminal marker with a true value is ignored: the cursor, the postings
\* and the Suggestion Model are unchanged and the review stays in the
\* navigation loop of the same transaction.
C2_CommitIgnoredOffTerminal ==
    [][(pc = "nav" /\ op' = "r" /\ ~IsTerminalAt(accounts_dict, selected)) =>
          /\ selected' = selected
          /\ entries' = entries
          /\ save_dict' = save_dict
          /\ trained' = trained
          /\ k' = k
          /\ pc' = "nav"]_vars

C2_Witness ==
    /\ TreeIs(TreeFalseMarker)
    /\ pc = "nav"
    /\ op = "r"
    /\ selected = <<0>>
    /\ ~IsTerminalAt(accounts_dict, selected)

\* C3: an honored commit sets the second posting's account to the path the
\* cursor resolves to, trains the Suggestion Model once on (this
\* transaction, that account) and ends the transaction's loop; no other
\* posting and no other transaction is changed.
C3_HonoredCommit ==
    [][(pc = "nav" /\ op' = "r" /\ IsTerminalAt(accounts_dict, selected)) =>
          LET name == CursorPath(accounts_dict, selected)
          IN /\ entries'[k].postings[2].account = name
             /\ entries' = [entries EXCEPT ![k].postings[2].account = name]
             /\ save_dict' = add_txn(save_dict, entries[k], name)
             /\ trained' = Append(trained, [entry |-> k, account |-> name])
             /\ k' = k + 1
             /\ pc' = "loop"]_vars

C3_Witness ==
    /\ op = "r"
    /\ pc = "loop"
    /\ Len(trained) = 2
    /\ Len(entries[2].postings) = 3
    /\ entries[2].postings[2].account = Path2(sAst, sBank)

\* C4 as stated: at the start of a transaction's review the cursor is the
\* path of the Suggestion Model's guess when the guess is non-empty, and [0]
\* otherwise.  Fails in a session run without suggestions (ag is None): the
\* private model learns from the commits and returns guesses that are not
\* used.
C4_SeedFromAnyGuess ==
    op = "seed" =>
        IF GuessReturned /\ ~account_name.isNone
        THEN /\ pc = "nav"
             /\ ValidCursor(accounts_dict, selected)
             /\ CursorPath(accounts_dict, selected) = account_name.s
        ELSE selected = <<0>>

\* C4 amended: at the start of a transaction's review the cursor is the path
\* of the guess when suggestions are active (an AccountGuess was handed to
\* the session) and the guess is non-empty, and [0] otherwise.
C4_SeedFromGuessWhenActive ==
    op = "seed" =>
        IF ag_active /\ GuessReturned /\ ~account_name.isNone
        THEN /\ pc = "nav"
             /\ ValidCursor(accounts_dict, selected)
             /\ CursorPath(accounts_dict, selected) = account_name.s
        ELSE selected = <<0>>

C4_Witness ==
    /\ op = "seed"
    /\ ag_active
    /\ ~bootstrap
    /\ k = 2
    /\ account_name = Some(Path2(sAst, sBank))
    /\ selected = <<0, 1>>

\* C5: after a quit command received while reviewing transaction k, that
\* transaction and every later one are as the importer left them, the
\* transactions before k keep the accounts committed for them, only
\* transactions 1..k were ever reviewed, and nothing happens any more.
C5_QuitEndsSession ==
    /\ [](op = "q" =>
            /\ pc = "quit"
            /\ \A j \in k..Len(entries) : entries[j] = AsExtracted(j)
            /\ Len(trained) = k - 1
            /\ \A j \in 1..(k - 1) :
                  entries[j].postings[2].account = trained[j].account
            /\ seeded = [j \in 1..k |-> j])
    /\ [][op # "q"]_vars

C5_Witness ==
    /\ op = "q"
    /\ pc = "quit"
    /\ k = 2
    /\ Len(entries) = 3
    /\ entries[1].postings[2].account # sPending

\* C6: transactions are reviewed in list order, and when the guess for a
\* transaction is computed the Suggestion Model holds the training of every
\* commit made on the transactions before it.
C6_OnlineLearningInOrder ==
    /\ seeded = [j \in 1..Len(seeded) |-> j]
    /\ \A i \in 1..Len(trained) : trained[i].entry = i
    /\ op = "seed" =>
          /\ Len(trained) = k - 1
          /\ save_dict = FoldTrain(InitialModel, trained, 1)
          /\ LET guess == get_account(FoldTrain(InitialModel, trained, 1), entries[k])
             IN IF guess.exc = "none"
                THEN GuessReturned /\ account_name = guess.val
                ELSE err = guess.exc
          /\ (k = 2 /\ ~(ag_active /\ bootstrap) /\ GuessReturned) =>
                account_name = Some(trained[1].account)

C6_Witness ==
    /\ op = "seed"
    /\ k = 3
    /\ Len(trained) = 2
    /\ trained[1].account # trained[2].account
    /\ ~account_name.isNone

-----------------------------------------------------------------------------
(* The suggestion model on its own: an AccountGuess driven by add_txn and  *)
(* get_account calls, on transactions as extract hands them over: the      *)
(* metadata values are str, but for the duplicate flag, which is True.     *)

MaxTrain == 3

sA == <<"a">>
sAA == <<"a", " ", "a">>
sBcd == <<"b", "c", "d">>
sABcd == <<"a", " ", "b", "c", "d">>
sQ == <<"q">>
sNn == <<"n", "n">>
sMm == <<"m", "m">>

\* The transactions handed to the guesser; add_txn gets those of TrainTxns.
\* The last two were marked as duplicates.
GuessTxnPool ==
    <<[narration |-> sAA, payee |-> None, flag |-> "*",
       meta |-> <<[k |-> "filename", v |-> sFile], [k |-> "lineno", v |-> sLine]>>,
       postings |-> <<Posting(sSrc, "-5"), Posting(sPending, "5")>>],
      [narration |-> sBcd, payee |-> Some(sXy), flag |-> "*",
       meta |-> <<[k |-> "filename", v |-> sFile], [k |-> "lineno", v |-> sLine],
                  [k |-> "note", v |-> sQ], [k |-> "__automatic__", v |-> sA]>>,
       postings |-> <<Posting(sSrc, "-7"), Posting(sPending, "7")>>],
      [narration |-> sABcd, payee |-> None, flag |-> "!",
       meta |-> <<[k |-> "filename", v |-> sFile], [k |-> "lineno", v |-> sLine]>>,
       postings |-> <<Posting(sSrc, "-1"), Posting(sPending, "1")>>],
      [narration |-> sNn, payee |-> Some(sXy), flag |-> "!",
       meta |-> <<[k |-> "filename", v |-> sQ], [k |-> "lineno", v |-> sLine],
                  [k |-> DUPLICATE_META, v |-> PyTrue]>>,
       postings |-> <<Posting(sSrc, "-2"), Posting(sPending, "2")>>],
      [narration |-> sMm, payee |-> None, flag |-> "!",
       meta |-> <<[k |-> "filename", v |-> sFile], [k |-> "lineno", v |-> sLine],
                  [k |-> DUPLICATE_META, v |-> PyTrue]>>,
       postings |-> <<Posting(sSrc, "-3"), Posting(sPending, "3")>>]>>

TrainTxns == {1, 2, 3, 5}

GuessAccounts == {Path2(sExp, sFood), sInc}

GuessIdle ==
    /\ accounts_dict = TreeEmpty
    /\ selected = reset
    /\ before = reset
    /\ pc = "none"
    /\ ag_active = FALSE
    /\ bootstrap = FALSE
    /\ seeded = <<>>

\* AccountGuess.__init__
GuessInit ==
    /\ save_dict = <<>>
    /\ entries = GuessTxnPool
    /\ k = 0
    /\ arg = <<>>
    /\ account_name = None
    /\ trained = <<>>
    /\ op = "init"
    /\ err = "none"
    /\ GuessIdle
    /\ ExtractIdle

\* ag.add_txn(txn, account_name)
Train == \E i \in TrainTxns, a \in GuessAccounts :
    /\ Len(trained) < MaxTrain
    /\ save_dict' = add_txn(save_dict, entries[i], a)
    /\ trained' = Append(trained, [entry |-> i, account |-> a])
    /\ op' = "add_txn"
    /\ k' = i
    /\ arg' = a
    /\ err' = "none"
    /\ UNCHANGED extractvars
    /\ UNCHANGED <<accounts_dict, selected, before, entries, pc, ag_active,
                   bootstrap, account_name, seeded>>

\* account_name = ag.get_account(txn): nothing is assigned when the call
\* raises
Guess == \E i \in 1..Len(entries) :
    /\ LET r == get_account(save_dict, entries[i])
       IN /\ account_name' = IF r.exc = "none" THEN r.val ELSE account_name
          /\ err' = r.exc
    /\ save_dict' = get_account_save_dict(save_dict, entries[i])
    /\ op' = "get_account"
    /\ k' = i
    /\ UNCHANGED extractvars
    /\ UNCHANGED <<accounts_dict, selected, before, arg, entries, pc,
                   ag_active, bootstrap, trained, seeded>>

GuessNext ==
    \/ Train
    \/ Guess

GuessSpec == GuessInit /\ [][GuessNext]_vars

-----------------------------------------------------------------------------
(* The vocabulary of the suggestion model's properties, read off the       *)
(* stored tallies and the call history and not through the guesser's       *)
(* methods.                                                                *)

\* The term sequence of each transaction of GuessTxnPool: the words of the
\* narration, the words of the payee, the metadata values whose key is not a
\* provenance or balancing key (the duplicate flag's True is such a value).
GuessTerms(i) ==
    CASE i = 1 -> <<sA, sA>>
      [] i = 2 -> <<sBcd, sXy, sQ>>
      [] i = 3 -> <<sA, sBcd>>
      [] i = 4 -> <<sNn, sXy, PyTrue>>
      [] i = 5 -> <<sMm, PyTrue>>

Count(seq, x) == Cardinality({p \in 1..Len(seq) : seq[p] = x})

HasItem(sd, term) == \E i \in 1..Len(sd) : sd[i].k = term

ItemOf(sd, term) == sd[CHOOSE i \in 1..Len(sd) : sd[i].k = term].v

HasEntry(sd, term, acc) ==
    HasItem(sd, term) /\ \E j \in 1..Len(ItemOf(sd, term)) : ItemOf(sd, term)[j].k = acc

\* The tally of an account in one GuessItem: 0 when nothing is stored.
ItemTally(item, acc) ==
    IF \E j \in 1..Len(item) : item[j].k = acc
    THEN item[CHOOSE j \in 1..Len(item) : item[j].k = acc].v.n
    ELSE 0

\* The tally of (term, account): 0 when nothing is stored for the pair.
Tally(sd, term, acc) ==
    IF HasItem(sd, term) THEN ItemTally(ItemOf(sd, term), acc) ELSE 0

\* The terms and the accounts the guesser can hold a tally for: those of the
\* calls, the metadata values of the skipped keys, and whatever a model holds.
TermsOf(sd) ==
    {sA, sBcd, sXy, sQ, sNn, sMm, PyTrue, sFile, sLine} \cup { sd[i].k : i \in 1..Len(sd) }

AccountsOf(sd) ==
    GuessAccounts
    \cup UNION { { sd[i].v[j].k : j \in 1..Len(sd[i].v) } : i \in 1..Len(sd) }

RECURSIVE TotalFrom(_, _)
TotalFrom(item, j) ==
    IF j > Len(item) THEN 0 ELSE item[j].v.n + TotalFrom(item, j + 1)

\* The sum of the tallies of a term over all accounts.
Total(sd, term) == IF HasItem(sd, term) THEN TotalFrom(ItemOf(sd, term), 1) ELSE 0

\* The terms of the transactions trained so far.
TrainedTerms ==
    UNION { { GuessTerms(trained[i].entry)[p] :
                p \in 1..Len(GuessTerms(trained[i].entry)) } : i \in 1..Len(trained) }

\* The product of Total(term)^2 over the known term occurrences other than p.
RECURSIVE OtherTotals(_, _, _, _)
OtherTotals(sd, ts, p, q) ==
    IF q > Len(ts) THEN 1
    ELSE (IF q # p /\ HasItem(sd, ts[q])
          THEN Total(sd, ts[q]) * Total(sd, ts[q]) ELSE 1)
         * OtherTotals(sd, ts, p, q + 1)

RECURSIVE VoteFrom(_, _, _, _)
VoteFrom(sd, ts, acc, p) ==
    IF p > Len(ts) THEN 0
    ELSE (IF HasItem(sd, ts[p])
          THEN Tally(sd, ts[p], acc) * Tally(sd, ts[p], acc) * Len(ts[p])
               * OtherTotals(sd, ts, p, 1)
          ELSE 0)
         + VoteFrom(sd, ts, acc, p + 1)

\* The accumulated vote of an account for a term sequence,
\*   sum over the known occurrences of (Tally / Total)^2 * len(term),
\* multiplied by the product of Total^2 over the known occurrences, which is
\* the same positive integer for every account.
Vote(sd, ts, acc) == VoteFrom(sd, ts, acc, 1)

-----------------------------------------------------------------------------
(* Properties of the suggestion model, checked under GuessSpec.            *)

\* The result of the last get_account call is an account whose accumulated
\* vote, the sum over the term occurrences of the transaction that have a
\* GuessItem of weight(term, account) * len(term), is maximal among all
\* accounts, and is None exactly when no term of the transaction was ever
\* trained.
ResultIsMaximalVote ==
    LET ts == GuessTerms(k)
    IN IF \A p \in 1..Len(ts) : ts[p] \notin TrainedTerms
       THEN account_name = None
       ELSE /\ ~account_name.isNone
            /\ account_name.s \in GuessAccounts
            /\ Vote(save_dict, ts, account_name.s) > 0
            /\ \A b \in GuessAccounts :
                  Vote(save_dict, ts, b) <= Vote(save_dict, ts, account_name.s)

\* C11: get_account(txn) returns, and what it returns is an account of
\* maximal accumulated vote, or None when no term of txn was ever trained.
\* Fails: for a transaction that carries the duplicate flag, once a flagged
\* transaction was trained, the term True has a GuessItem and len(True)
\* raises TypeError.
C11_GuessIsMaximalVote ==
    op = "get_account" => (GuessReturned /\ ResultIsMaximalVote)

\* What holds of get_account: it raises exactly when a term of the
\* transaction that has a GuessItem is no str, and what it returns otherwise
\* is as C11 says.
C11_MaximalVoteUnlessTermHasNoLength ==
    op = "get_account" =>
        IF \E p \in 1..Len(GuessTerms(k)) :
              GuessTerms(k)[p] = PyTrue /\ PyTrue \in TrainedTerms
        THEN err = "TypeError"
        ELSE GuessReturned /\ ResultIsMaximalVote

\* A guess where two accounts have votes, and the longer term's account wins
\* over the account of the term that comes first.
C11_Witness ==
    /\ op = "get_account"
    /\ GuessReturned
    /\ k = 3
    /\ account_name = Some(sInc)
    /\ Tally(save_dict, sA, Path2(sExp, sFood)) > 0
    /\ Tally(save_dict, sA, sInc) = 0
    /\ 0 < Vote(save_dict, GuessTerms(3), Path2(sExp, sFood))
    /\ Vote(save_dict, GuessTerms(3), Path2(sExp, sFood))
           < Vote(save_dict, GuessTerms(3), sInc)


\* C12: get() of a GuessItem gives, for every account recorded against the
\* term and for no other, (tally / total)^2; the weights are ordered as the
\* tallies are; a term recorded against one account only has weight 1 for it;
\* tallies 3 and 1 give 9/16 and 1/16.
C12_WeightIsSquaredShare ==
    \A i \in 1..Len(save_dict) :
        LET item == save_dict[i].v
            total == TotalFrom(item, 1)
            w == get(item)
        IN /\ Len(w) = Len(item)
           /\ \A j \in 1..Len(item) :
                 /\ w[j].k = item[j].k
                 /\ w[j].v.d > 0
                 /\ w[j].v.n * total * total = item[j].v.n * item[j].v.n * w[j].v.d
           /\ \A j1, j2 \in 1..Len(item) :
                 (item[j1].v.n < item[j2].v.n)
                     <=> (w[j1].v.n * w[j2].v.d < w[j2].v.n * w[j1].v.d)
           /\ Len(item) = 1 => w[1].v.n = w[1].v.d
           /\ \A j1, j2 \in 1..Len(item) :
                 (Len(item) = 2 /\ item[j1].v.n = 3 /\ item[j2].v.n = 1)
                     => /\ w[j1].v.n * 16 = 9 * w[j1].v.d
                        /\ w[j2].v.n * 16 = 1 * w[j2].v.d

\* A guess has just read the weights of a term with tallies 3 and 1.
C12_Witness ==
    /\ op = "get_account"
    /\ GuessReturned
    /\ k = 3
    /\ HasItem(save_dict, sA)
    /\ Len(ItemOf(save_dict, sA)) = 2
    /\ Tally(save_dict, sA, sInc) = 3
    /\ Tally(save_dict, sA, Path2(sExp, sFood)) = 1

\* C13: add_txn(txn, account) raises the tally of (term, account) by the
\* number of times the term occurs in the term sequence of txn (narration
\* words, payee words, metadata values of the keys not skipped; repeats
\* count), creates the GuessItem of a term of txn that had none and no other
\* GuessItem, and leaves every tally of another term or another account as
\* it was.
C13_TrainAddsOccurrences ==
    [][op' = "add_txn" =>
          \A t \in TermsOf(save_dict') :
             /\ HasItem(save_dict', t)
                   <=> (HasItem(save_dict, t) \/ Count(GuessTerms(k'), t) > 0)
             /\ \A a \in AccountsOf(save_dict') :
                   Tally(save_dict', t, a)
                       = Tally(save_dict, t, a)
                         + (IF a = arg' THEN Count(GuessTerms(k'), t) ELSE 0)
      ]_vars

\* A transaction with a repeated term has been trained twice for one
\* account, after a training of another transaction for another account.
C13_Witness ==
    /\ op = "add_txn"
    /\ k = 1
    /\ Tally(save_dict, sA, arg) = 4
    /\ \E b \in GuessAccounts : b # arg /\ Tally(save_dict, sXy, b) = 1
    /\ ~HasItem(save_dict, sFile)

\* C14: every stored tally is a strictly positive integer; GuessItem.add
\* raises the tally of its account by exactly 1 and no other; no call ever
\* lowers a tally.
C14_TalliesPositiveAndMonotone ==
    /\ [](\A i \in 1..Len(save_dict) :
             LET item == save_dict[i].v
             IN /\ \A j \in 1..Len(item) : item[j].v.d = 1 /\ item[j].v.n > 0
                /\ \A a \in GuessAccounts :
                      /\ ItemTally(add(item, a), a) = ItemTally(item, a) + 1
                      /\ \A b \in AccountsOf(save_dict) \ {a} :
                            ItemTally(add(item, a), b) = ItemTally(item, b))
    /\ [](\A a \in GuessAccounts : ItemTally(add(<<>>, a), a) = 1)
    /\ [][\A t \in TermsOf(save_dict) : \A a \in AccountsOf(save_dict) :
              Tally(save_dict', t, a) >= Tally(save_dict, t, a)]_vars

\* A guess follows the last of MaxTrain trainings, with tallies above 1.
C14_Witness ==
    /\ op = "get_account"
    /\ Len(trained) = MaxTrain
    /\ \E a \in GuessAccounts : Tally(save_dict, sBcd, a) = 2
    /\ \E a \in GuessAccounts : Tally(save_dict, sA, a) = 3

\* The terms the transaction of the last call shares with the transactions
\* trained so far.
SharedTerms ==
    { GuessTerms(k)[p] : p \in 1..Len(GuessTerms(k)) } \cap TrainedTerms

\* The training calls whose transaction had term t.
ExamplesOf(t) ==
    { i \in 1..Len(trained) : Count(GuessTerms(trained[i].entry), t) > 0 }

\* C15: when the transaction guessed shares exactly one term with the
\* transactions trained so far, and exactly one training call had that term,
\* get_account returns the account of that call.  Fails when the one shared
\* term is the duplicate flag's True: get_account raises TypeError (C11).
C15_SingleSharedTermDecides ==
    op = "get_account" =>
        \A t \in SharedTerms :
            (SharedTerms = {t} /\ Cardinality(ExamplesOf(t)) = 1)
                => /\ GuessReturned
                   /\ \A i \in ExamplesOf(t) : account_name = Some(trained[i].account)

\* What holds: the same, for a shared term that is a str.
C15_SingleSharedStrTermDecides ==
    op = "get_account" =>
        \A t \in SharedTerms \ {PyTrue} :
            (SharedTerms = {t} /\ Cardinality(ExamplesOf(t)) = 1)
                => /\ GuessReturned
                   /\ \A i \in ExamplesOf(t) : account_name = Some(trained[i].account)

\* The shared term is the payee word of the one training call that had it,
\* among other trainings to other accounts.
C15_Witness ==
    /\ op = "get_account"
    /\ GuessReturned
    /\ k = 4
    /\ Len(trained) = 3
    /\ trained[1].entry = 1
    /\ trained[2].entry = 2
    /\ trained[3].entry = 1
    /\ trained[1].account # trained[2].account
    /\ trained[3].account # trained[2].account
    /\ account_name = Some(trained[2].account)

\* C16: get_account leaves the model as it was: no GuessItem appears for an
\* unknown term and no tally changes; only add_txn changes the model.
C16_GuessIsReadOnly ==
    [][/\ op' = "get_account" => save_dict' = save_dict
       /\ save_dict' # save_dict => op' = "add_txn"]_vars

\* A guess on a transaction with an unknown term, on a trained model.
C16_Witness ==
    /\ op = "get_account"
    /\ k = 4
    /\ Len(trained) >= 1
    /\ HasItem(save_dict, sXy)
    /\ ~HasItem(save_dict, sNn)
    /\ TermsOf(save_dict) = TermsOf(<<>>)

-----------------------------------------------------------------------------
(* extract.py: extract_from_file and extract, for one file and the         *)
(* importer that matched it.  Entries are objects with an identity (the    *)
(* code compares id(entry)): an entry is its index in objects, and its     *)
(* meta field is the index in dicts of its metadata dict, which is mutable *)
(* and may be shared.  A list of entries is a sequence of entry ids.       *)

MaxCalls == 2

sTwo == <<"2">>
sThree == <<"3">>

\* The metadata dicts and the entries an importer makes.  The second and the
\* third entry share one metadata dict; the fourth entry is one that
\* data.sanity_check_types rejects.
InputDicts ==
    <<<<[k |-> "filename", v |-> sFile], [k |-> "lineno", v |-> sLine]>>,
      <<[k |-> "filename", v |-> sFile], [k |-> "lineno", v |-> sTwo]>>,
      <<[k |-> "filename", v |-> sFile], [k |-> "lineno", v |-> sThree]>>>>

InputObjects ==
    <<[date |-> 1, narration |-> sAb, typed |-> TRUE, meta |-> 1],
      [date |-> 3, narration |-> sCd, typed |-> TRUE, meta |-> 2],
      [date |-> 2, narration |-> sXy, typed |-> TRUE, meta |-> 2],
      [date |-> 3, narration |-> sZzz, typed |-> FALSE, meta |-> 3]>>

\* What importer.extract(file) does: it raises, or it returns None or a list.
ImporterOutcomes ==
    <<[exc |-> "ValueError", val |-> None],
      [exc |-> "KeyboardInterrupt", val |-> None],
      [exc |-> "SystemExit", val |-> None],
      [exc |-> "none", val |-> None],
      [exc |-> "none", val |-> Some(<<>>)],
      [exc |-> "none", val |-> Some(<<1>>)],
      [exc |-> "none", val |-> Some(<<1, 2>>)],
      [exc |-> "none", val |-> Some(<<1, 2, 3>>)],
      [exc |-> "none", val |-> Some(<<2, 1, 2>>)],
      [exc |-> "none", val |-> Some(<<1, 4>>)]>>

\* The entries of the ledger: no ledger, an empty one, one entry.
ExistingOutcomes == <<None, Some(<<>>), Some(<<"x1">>)>>

MinDates == <<None, Some(2)>>

\* isinstance(exc, Exception): KeyboardInterrupt, SystemExit and
\* GeneratorExit derive from BaseException only
IsException(exc) == exc \notin {"KeyboardInterrupt", "SystemExit", "GeneratorExit"}

\* similar.find_similar_entries(new_entries, existing_entries): the pairs
\* (new entry, existing entry) the matcher reports, in the order of the new
\* entries, at most one pair for each.
find_similar_entries(new_entries, existing) ==
    LET RECURSIVE go(_)
        go(i) ==
            IF i > Len(new_entries) THEN <<>>
            ELSE LET hits == SelectSeq(existing,
                                       LAMBDA x : <<new_entries[i], x>> \in similar)
                 IN (IF Len(hits) > 0 THEN <<<<new_entries[i], hits[1]>>>> ELSE <<>>)
                    \o go(i + 1)
    IN go(1)

\* list(itertools.dropwhile(lambda x: x.date < min_date, new_entries))
dropwhile(objs, new_entries, date) ==
    LET RECURSIVE go(_)
        go(i) == IF i > Len(new_entries) THEN <<>>
                 ELSE IF objs[new_entries[i]].date < date THEN go(i + 1)
                 ELSE SubSeq(new_entries, i, Len(new_entries))
    IN go(1)

mark_duplicates_in_place(objs, dcts, new_entries, duplicate_set) ==
    LET RECURSIVE go(_, _, _, _, _)
        go(i, o, d, mod_entries, duplicate_entries) ==
            IF i > Len(new_entries)
            THEN [new_entries |-> mod_entries, duplicate_entries |-> duplicate_entries,
                  objects |-> o, dicts |-> d]
            ELSE IF new_entries[i] \in duplicate_set
            THEN LET entry == o[new_entries[i]]
                     d1 == [d EXCEPT ![entry.meta] = PySetItem(d[entry.meta],
                                                              DUPLICATE_META, PyTrue)]
                     o1 == Append(o, [entry EXCEPT !.meta = entry.meta])
                 IN go(i + 1, o1, d1, Append(mod_entries, Len(o1)),
                       Append(duplicate_entries, Len(o1)))
            ELSE go(i + 1, o, d, Append(mod_entries, new_entries[i]), duplicate_entries)
    IN go(1, objs, dcts, <<>>, <<>>)

mark_duplicates_keeps_original(objs, dcts, new_entries, duplicate_set) ==
    LET RECURSIVE go(_, _, _, _, _)
        go(i, o, d, mod_entries, duplicate_entries) ==
            IF i > Len(new_entries)
            THEN [new_entries |-> mod_entries, duplicate_entries |-> duplicate_entries,
                  objects |-> o, dicts |-> d]
            ELSE IF new_entries[i] \in duplicate_set
            THEN LET entry == o[new_entries[i]]
                     d1 == Append(d, PySetItem(d[entry.meta], DUPLICATE_META, PyTrue))
                     o1 == Append(o, [entry EXCEPT !.meta = Len(d1)])
                 IN go(i + 1, o1, d1, Append(mod_entries, new_entries[i]),
                       Append(duplicate_entries, Len(o1)))
            ELSE go(i + 1, o, d, Append(mod_entries, new_entries[i]), duplicate_entries)
    IN go(1, objs, dcts, <<>>, <<>>)

\* extract_from_file's loop over new_entries: an entry whose id is in
\* duplicate_set is replaced by entry._replace(meta=marked_meta), a new
\* object, where marked_meta is a copy of its metadata, a new dict, with
\* the flag set
mark_duplicates(objs, dcts, new_entries, duplicate_set) ==
    LET RECURSIVE go(_, _, _, _, _)
        go(i, o, d, mod_entries, duplicate_entries) ==
            IF i > Len(new_entries)
            THEN [new_entries |-> mod_entries, duplicate_entries |-> duplicate_entries,
                  objects |-> o, dicts |-> d]
            ELSE IF new_entries[i] \in duplicate_set
            THEN LET entry == o[new_entries[i]]
                     d1 == Append(d, PySetItem(d[entry.meta], DUPLICATE_META, PyTrue))
                     o1 == Append(o, [entry EXCEPT !.meta = Len(d1)])
                 IN go(i + 1, o1, d1, Append(mod_entries, Len(o1)),
                       Append(duplicate_entries, Len(o1)))
            ELSE go(i + 1, o, d, Append(mod_entries, new_entries[i]), duplicate_entries)
    IN go(1, objs, dcts, <<>>, <<>>)

\* extract_from_file: the two lists it returns or the exception it lets
\* through, and the heap it leaves
extract_from_file(objs, dcts, imp, existing, mindate) ==
    LET raised(e) == [exc |-> e, new_entries |-> <<>>, duplicate_entries |-> <<>>,
                      objects |-> objs, dicts |-> dcts]
        result(new_entries, duplicate_entries, o, d) ==
            [exc |-> "none", new_entries |-> new_entries,
             duplicate_entries |-> duplicate_entries, objects |-> o, dicts |-> d]
    IN IF imp.exc # "none" THEN raised(imp.exc)
       ELSE IF imp.val.isNone \/ Len(imp.val.s) = 0 THEN result(<<>>, <<>>, objs, dcts)
       ELSE IF \E i \in 1..Len(imp.val.s) : ~objs[imp.val.s[i]].typed
       THEN raised("AssertionError")
       ELSE LET new_entries == IF mindate.isNone THEN imp.val.s
                               ELSE dropwhile(objs, imp.val.s, mindate.s)
            IN IF existing.isNone THEN result(new_entries, <<>>, objs, dcts)
               ELSE LET duplicate_pairs == find_similar_entries(new_entries, existing.s)
                        duplicate_set == { duplicate_pairs[i][1] :
                                             i \in 1..Len(duplicate_pairs) }
                        m == mark_duplicates(objs, dcts, new_entries, duplicate_set)
                    IN result(m.new_entries, m.duplicate_entries, m.objects, m.dicts)

\* new_entries.reverse()
PyReverse(list) == [i \in 1..Len(list) |-> list[Len(list) + 1 - i]]

extract_lets_exception_through(objs, dcts, imp, existing, mindate, asc) ==
    LET r == extract_from_file(objs, dcts, imp, existing, mindate)
        result(v, e) == [exc |-> e, new_entries |-> v, duplicate_entries |-> <<>>,
                         logged |-> <<>>, objects |-> r.objects, dicts |-> r.dicts]
    IN IF r.exc # "none" THEN result(<<>>, r.exc)
       ELSE IF Len(r.new_entries) = 0 /\ Len(r.duplicate_entries) = 0
       THEN result(<<>>, "none")
       ELSE IF ~asc THEN result(PyReverse(r.new_entries), "none")
       ELSE result(r.new_entries, "none")

\* extract: the list it returns or the exception it lets through, the
\* records it logs, and the heap it leaves
extract(objs, dcts, imp, existing, mindate, asc) ==
    LET r == extract_from_file(objs, dcts, imp, existing, mindate)
        result(v, e, l) == [exc |-> e, new_entries |-> v, duplicate_entries |-> <<>>,
                            logged |-> l, objects |-> r.objects, dicts |-> r.dicts]
    IN IF r.exc # "none"
       THEN IF IsException(r.exc)
            THEN result(<<>>, "none",
                        <<[level |-> "error", text |-> "raised", exc |-> r.exc],
                          [level |-> "error", text |-> "traceback", exc |-> r.exc]>>)
            ELSE result(<<>>, r.exc, <<>>)
       ELSE IF Len(r.new_entries) = 0 /\ Len(r.duplicate_entries) = 0
       THEN result(<<>>, "none", <<>>)
       ELSE IF ~asc THEN result(PyReverse(r.new_entries), "none", <<>>)
       ELSE result(r.new_entries, "none", <<>>)

NavIdle ==
    /\ accounts_dict = TreeEmpty
    /\ selected = reset
    /\ op = "init"
    /\ before = reset
    /\ arg = <<>>
    /\ err = "none"

\* The arguments of the calls, and the objects the importer will return.
ExtractInit ==
    /\ \E i \in 1..Len(ImporterOutcomes) : importer = ImporterOutcomes[i]
    /\ \E i \in 1..Len(ExistingOutcomes) : existing_entries = ExistingOutcomes[i]
    /\ \E i \in 1..Len(MinDates) : min_date = MinDates[i]
    /\ ascending \in BOOLEAN
    /\ similar \in SUBSET ({1, 2, 3} \X {"x1"})
    /\ objects = InputObjects
    /\ dicts = InputDicts
    /\ returned = <<>>
    /\ logged = <<>>
    /\ NavIdle
    /\ SessionIdle

\* new_entries, duplicate_entries = extract_from_file(filename, importer, ...)
CallExtractFromFile ==
    /\ Len(returned) < MaxCalls
    /\ LET r == extract_from_file(objects, dicts, importer, existing_entries, min_date)
       IN /\ objects' = r.objects
          /\ dicts' = r.dicts
          /\ returned' = Append(returned,
                [fn |-> "extract_from_file", exc |-> r.exc,
                 new_entries |-> r.new_entries,
                 duplicate_entries |-> r.duplicate_entries])
    /\ UNCHANGED <<importer, existing_entries, min_date, ascending, similar, logged>>
    /\ UNCHANGED <<accounts_dict, selected, op, before, arg, err>>
    /\ UNCHANGED sessvars

\* new_entries = extract(importer, filename, entries, ...)
CallExtract ==
    /\ Len(returned) < MaxCalls
    /\ LET r == extract(objects, dicts, importer, existing_entries, min_date, ascending)
       IN /\ objects' = r.objects
          /\ dicts' = r.dicts
          /\ logged' = logged \o r.logged
          /\ returned' = Append(returned,
                [fn |-> "extract", exc |-> r.exc,
                 new_entries |-> r.new_entries,
                 duplicate_entries |-> r.duplicate_entries])
    /\ UNCHANGED <<importer, existing_entries, min_date, ascending, similar>>
    /\ UNCHANGED <<accounts_dict, selected, op, before, arg, err>>
    /\ UNCHANGED sessvars

ExtractNext ==
    \/ CallExtractFromFile
    \/ CallExtract

ExtractSpec == ExtractInit /\ [][ExtractNext]_vars

-----------------------------------------------------------------------------
(* The vocabulary of the duplicate marker's properties.                    *)

\* The list the importer returned, without its leading entries dated before
\* min_date: the new entries the marker is given.
NewEntries ==
    LET list == importer.val.s
        keep == { i \in 1..Len(list) :
                    min_date.isNone \/ InputObjects[list[i]].date >= min_date.s }
    IN IF importer.exc # "none" \/ keep = {} THEN <<>>
       ELSE SubSeq(list, CHOOSE i \in keep : \A j \in keep : i <= j, Len(list))

\* The new entry is the new-entry side of a pair the matcher reports.
Matched(e) ==
    /\ ~existing_entries.isNone
    /\ \E i \in 1..Len(existing_entries.s) : <<e, existing_entries.s[i]>> \in similar

\* The metadata of an entry, as it is now.
MetaOf(e) == dicts[objects[e].meta]

HasFlag(e) == \E i \in 1..Len(MetaOf(e)) : MetaOf(e)[i].k = "__duplicate__"

FlagIsTrue(e) ==
    \E i \in 1..Len(MetaOf(e)) :
        MetaOf(e)[i].k = "__duplicate__" /\ MetaOf(e)[i].v = PyTrue

\* The metadata of an entry without the duplicate flag.
MetaWithoutFlag(e) == SelectSeq(MetaOf(e), LAMBDA item : item.k # "__duplicate__")

\* An entry by value: its fields, its metadata in place of the dict's identity.
ValueOf(e) == [objects[e] EXCEPT !.meta = MetaOf(e)]

\* The calls of extract_from_file that returned.
MarkerRuns ==
    { i \in 1..Len(returned) :
        returned[i].fn = "extract_from_file" /\ returned[i].exc = "none" }

\* The heap holds the importer's entries and dicts as the importer made them.
InputUntouched ==
    /\ SubSeq(objects, 1, Len(InputObjects)) = InputObjects
    /\ SubSeq(dicts, 1, Len(InputDicts)) = InputDicts

-----------------------------------------------------------------------------
(* Properties of extract_from_file and extract, checked under ExtractSpec. *)

\* C17: extract_from_file returns a full list as long as the new entries and
\* in their order: at the position of a matched entry a copy of it (a new
\* object, equal to the entry but for its metadata, which is a new dict: the
\* entry's metadata plus the flag set to True), at any other position the
\* entry itself, which has no flag; and a second list that is the flagged
\* entries of the full list, in their order.
C17_MarkerReturnsFlaggedCopies ==
    \A r \in MarkerRuns :
        LET full == returned[r].new_entries
            dups == returned[r].duplicate_entries
        IN /\ Len(full) = Len(NewEntries)
           /\ \A i \in 1..Len(full) :
                 IF Matched(NewEntries[i])
                 THEN /\ full[i] > Len(InputObjects)
                      /\ objects[full[i]].meta > Len(InputDicts)
                      /\ [objects[full[i]] EXCEPT !.meta = 0]
                             = [InputObjects[NewEntries[i]] EXCEPT !.meta = 0]
                      /\ FlagIsTrue(full[i])
                      /\ MetaWithoutFlag(full[i])
                             = InputDicts[InputObjects[NewEntries[i]].meta]
                 ELSE /\ full[i] = NewEntries[i]
                      /\ ~HasFlag(full[i])
           /\ dups = SelectSeq(full, HasFlag)

\* A run that flagged the first and the last of three entries and passed
\* the middle one through.
C17_Witness ==
    \E r \in MarkerRuns :
        /\ Len(returned[r].new_entries) = 3
        /\ Len(returned[r].duplicate_entries) = 2
        /\ returned[r].new_entries[2] = 1
        /\ returned[r].duplicate_entries[1] = returned[r].new_entries[1]
        /\ returned[r].duplicate_entries[2] = returned[r].new_entries[3]

\* C18: two runs of extract_from_file on the same arguments return flagged
\* subsets that are equal by value; the entries and the metadata dicts the
\* importer made are as they were; an entry that is not matched has no flag
\* in any list returned.
C18_MarkerRepeatable ==
    /\ \A r1, r2 \in MarkerRuns :
          LET d1 == returned[r1].duplicate_entries
              d2 == returned[r2].duplicate_entries
          IN /\ Len(d1) = Len(d2)
             /\ \A i \in 1..Len(d1) : ValueOf(d1[i]) = ValueOf(d2[i])
    /\ InputUntouched
    /\ \A r \in MarkerRuns : \A i \in 1..Len(returned[r].new_entries) :
          ~Matched(NewEntries[i]) => ~HasFlag(returned[r].new_entries[i])

\* Two runs, each flagging one entry, whose metadata dict an unmatched
\* entry of the list shares.
C18_Witness ==
    /\ Len(returned) = 2
    /\ MarkerRuns = {1, 2}
    /\ NewEntries = <<1, 2, 3>>
    /\ Matched(2)
    /\ ~Matched(3)
    /\ Len(returned[1].duplicate_entries) = 1
    /\ returned[1].duplicate_entries # returned[2].duplicate_entries

\* C19 as stated: when importer.extract raises any exception, extract
\* returns an empty list and logs the exception.  Fails for an exception
\* that is not an Exception (KeyboardInterrupt, SystemExit): extract lets it
\* through.
C19_AnyExceptionIsCaught ==
    \A i \in 1..Len(returned) :
        (returned[i].fn = "extract" /\ importer.exc # "none")
            => /\ returned[i].exc = "none"
               /\ returned[i].new_entries = <<>>
               /\ \E j \in 1..Len(logged) : logged[j].exc = importer.exc

\* C19 amended: when importer.extract raises an exception that is an
\* Exception, extract returns an empty list and logs the exception; an
\* exception that is not an Exception passes through extract.
C19_ExceptionIsCaught ==
    \A i \in 1..Len(returned) :
        (returned[i].fn = "extract" /\ importer.exc # "none")
            => IF importer.exc \in {"KeyboardInterrupt", "SystemExit", "GeneratorExit"}
               THEN returned[i].exc = importer.exc
               ELSE /\ returned[i].exc = "none"
                    /\ returned[i].new_entries = <<>>
                    /\ \E j \in 1..Len(logged) : logged[j].exc = importer.exc

\* extract was called twice with an importer that raises ValueError.
C19_Witness ==
    /\ importer.exc = "ValueError"
    /\ Len(returned) = 2
    /\ returned[1].fn = "extract"
    /\ returned[2].fn = "extract"
    /\ returned[2].new_entries = <<>>
    /\ Len(logged) = 4

-----------------------------------------------------------------------------
(* Properties of the review session that relate the cursor's two walks,    *)
(* checked under Spec.                                                     *)

\* The segment names, colon-separated.
RECURSIVE ColonPath(_)
ColonPath(names) ==
    IF Len(names) = 0 THEN <<>>
    ELSE IF Len(names) = 1 THEN names[1]
    ELSE names[1] \o <<":">> \o ColonPath(Tail(names))

HasTrueMarker(node) == \E j \in 1..Len(node) : node[j].k = ROOT /\ node[j].v = TRUE

\* The name sequences of the nodes that carry the terminal marker.
RECURSIVE TerminalNames(_)
TerminalNames(d) ==
    UNION { (IF HasTrueMarker(d[i].v) THEN {<<d[i].k>>} ELSE {})
            \cup { <<d[i].k>> \o p : p \in TerminalNames(d[i].v) } :
            i \in { j \in 1..Len(d) : d[j].k # ROOT } }

TerminalPaths(ad) == { ColonPath(names) : names \in TerminalNames(ad) }

\* C20: every account the session wrote to a posting is the path of a node
\* that carries the terminal marker; right after an honored commit, the
\* account written is the colon-joined names along the cursor the commit
\* was made at, and the node under that cursor carries the marker: the name
\* walk and the subtree walk ended at the same node.
C20_CommittedAccountsAreTerminal ==
    /\ \A i \in 1..Len(entries) : \A j \in 1..Len(entries[i].postings) :
          entries[i].postings[j].account # NewTxn(i).postings[j].account
              => entries[i].postings[j].account \in TerminalPaths(accounts_dict)
    /\ (op = "r" /\ pc = "loop") =>
          /\ ValidCursor(accounts_dict, before)
          /\ IsTerminalAt(accounts_dict, before)
          /\ entries[k - 1].postings[2].account
                 = ColonPath(NamesFrom(accounts_dict, before, 1))

\* A commit at a node that comes after the marker in its parent's dict.
C20_Witness ==
    /\ op = "r"
    /\ pc = "loop"
    /\ TreeIs(TreeWide)
    /\ before = <<0, 1>>
    /\ entries[k - 1].postings[2].account = Path2(sAst, sBank)
    /\ Len(trained) = 2


-----------------------------------------------------------------------------
(* Properties of the guesses of a session, checked under Spec.             *)

\* The accounts a model holds a tally for: the accounts get_account can return.
ModelAccounts(sd) ==
    UNION { { sd[i].v[j].k : j \in 1..Len(sd[i].v) } : i \in 1..Len(sd) }

\* The accounts the session committed through the navigator.
CommittedAccounts == { trained[i].account : i \in 1..Len(trained) }

\* The session started with an empty model: there was no bootstrap training.
StartsEmpty == ~(ag_active /\ bootstrap)

\* C21: in a session whose model starts empty, every account the model holds
\* (every account it can return as a guess) was committed through the
\* navigator and is a path of the tree; and when the seeding of a
\* transaction gets a guess, the guess is such an account, set_account does
\* not fail on it (no segment is missing: no ValueError), and with
\* suggestions active the review starts with the cursor on the guess.
C21_GuessesAreCommittedPaths ==
    StartsEmpty =>
        /\ ModelAccounts(save_dict) \subseteq CommittedAccounts
        /\ CommittedAccounts \subseteq ValidPaths(accounts_dict)
        /\ err # "ValueError"
        /\ (op = "seed" /\ GuessReturned /\ ~account_name.isNone) =>
              /\ account_name.s \in CommittedAccounts
              /\ set_account(accounts_dict, account_name.s).exc = "none"
              /\ ag_active =>
                    /\ pc = "nav"
                    /\ CursorPath(accounts_dict, selected) = account_name.s

\* The third transaction is seeded with an account committed for the first,
\* after a different account was committed for the second.
C21_Witness ==
    /\ op = "seed"
    /\ ag_active
    /\ ~bootstrap
    /\ k = 3
    /\ Len(trained) = 2
    /\ trained[1].account # trained[2].account
    /\ account_name = Some(trained[1].account)
    /\ Len(selected) = 2
    /\ pc = "nav"


-----------------------------------------------------------------------------
(* Properties of set_account's failure, checked under NavSpec.             *)

\* C22: set_account with an argument that is no path of the tree (some
\* segment is not among the names of its level) raises ValueError, and the
\* cursor after the call is the cursor before it.
C22_SetAccountFailureKeepsCursor ==
    (op = "set_account" /\ arg \notin ValidPaths(accounts_dict)) =>
        /\ err = "ValueError"
        /\ selected = before

\* A call whose first segment resolves and whose second does not, made with
\* the cursor away from [0].
C22_Witness ==
    /\ op = "set_account"
    /\ TreeIs(TreeWide)
    /\ arg = Path2(sAst, sZz)
    /\ err = "ValueError"
    /\ before = <<1, 0>>
    /\ selected = <<1, 0>>


-----------------------------------------------------------------------------
(* Properties of what the movement keys can reach, checked under Spec.     *)

\* Every valid cursor of a tree: one per node.
RECURSIVE CursorsFrom(_)
CursorsFrom(d) ==
    UNION { {<<i - 1>>} \cup { <<i - 1>> \o p : p \in CursorsFrom(Siblings(d)[i].v) }
            : i \in 1..Len(Siblings(d)) }

\* The cursors one movement command leads to, when it returns.
Moves(ad, sel) ==
    { r.val : r \in { x \in { prev_account(sel), next_account(ad, sel),
                              prev_level(sel), next_level(ad, sel) } :
                      x.exc = "none" } }

RECURSIVE Closure(_, _, _)
Closure(ad, seen, frontier) ==
    IF frontier = {} THEN seen
    ELSE LET new == UNION { Moves(ad, c) : c \in frontier } \ seen
         IN Closure(ad, seen \cup new, new)

\* The cursors some finite sequence of movement commands leads to.
Reachable(ad, sel) == Closure(ad, {sel}, {sel})

\* A commit at this cursor is honored: the node is an account and its name
\* can be read.
CommitHonoredAt(ad, sel) ==
    /\ get_nested_dict(ad, sel).exc = "none"
    /\ is_root(get_nested_dict(ad, sel).val)
    /\ _get_account(ad, sel).exc = "none"

\* C23: in a tree with a top-level account, from every valid cursor every
\* valid cursor (every node of the tree) is reached by some finite sequence
\* of prev_account, next_account, prev_level and next_level; while a
\* transaction is being navigated the cursor is valid and, when the tree
\* has a terminal account, a cursor at which a commit is honored is among
\* the cursors reached; and each movement key pressed while navigating
\* moves the cursor as its command does and leaves the session navigating.
C23_EveryNodeReachable ==
    /\ [](NonEmptyTree =>
            /\ \A c \in CursorsFrom(accounts_dict) :
                  CursorsFrom(accounts_dict) \subseteq Reachable(accounts_dict, c)
            /\ pc = "nav" =>
                  /\ selected \in CursorsFrom(accounts_dict)
                  /\ TerminalPaths(accounts_dict) # {} =>
                        \E c \in Reachable(accounts_dict, selected) :
                           /\ IsTerminalAt(accounts_dict, c)
                           /\ CommitHonoredAt(accounts_dict, c))
    /\ [][(pc = "nav" /\ NonEmptyTree /\ op' \in {"w", "s", "d", "a"}) =>
            /\ pc' = "nav"
            /\ selected' \in Moves(accounts_dict, selected)
            /\ op' = "w" => selected' = prev_account(selected).val
            /\ op' = "s" => selected' = next_account(accounts_dict, selected).val
            /\ op' = "a" => selected' = prev_level(selected).val
            /\ op' = "d" => selected' = next_level(accounts_dict, selected).val]_vars

\* Navigating at Exp:Food in the wide tree, from where Ast:Bank is four
\* commands away (up, previous, down, next).
C23_Witness ==
    /\ pc = "nav"
    /\ TreeIs(TreeWide)
    /\ selected = <<1, 0>>
    /\ op = "d"
    /\ <<0, 1>> \in Reachable(accounts_dict, selected)
    /\ CommitHonoredAt(accounts_dict, <<0, 1>>)

====
